---- MODULE Spec2Model ----
(***************************************************************************)
(* Data preparation, training sequencing and evaluation reporting of the   *)
(* three experiment scripts CNN_LSTM_Hybrid.py, GradientBoost.py and        *)
(* resnet_Optimized.py.                                                    *)
(*                                                                         *)
(* Real-valued columns are fixed-point integers: hrv_* in milliseconds,    *)
(* cv and signal_quality in tenths (cv = 5 is 0.5).  Of the feature         *)
(* columns only hrv_sdnn, hrv_rmssd, hrv_mean and cv are carried; the four  *)
(* further columns the CNN and boosting scripts normalise are treated by   *)
(* the code exactly like hrv_mean.  The label column (num_AFIB_annotations  *)
(* or has_AFIB) is the field label.                                        *)
(***************************************************************************)
EXTENDS Integers, Sequences, FiniteSets, TLC

VARIABLES script, pc, phase, trial, fileExists, file, df, x_res, y_res,
          ind_train, ind_test, x_train, x_test, y_train, y_test, entropy,
          model, modelArtifact, files, canvas, err, testReaders

vars == <<script, pc, phase, trial, fileExists, file, df, x_res, y_res,
          ind_train, ind_test, x_train, x_test, y_train, y_test, entropy,
          model, modelArtifact, files, canvas, err, testReaders>>

CNN == "CNN_LSTM_Hybrid"
GB == "GradientBoost"
RESNET == "resnet_Optimized"
Scripts == {CNN, GB, RESNET}

----------------------------------------------------------------------------
\* Bounds of the model.

\* longest table of the filter specification
MaxRows == 2
\* most rows of one class in a table of the pipeline specification
MaxClass == 7
\* number of search trials run (the scripts ask for 50)
MaxTrials == 2
\* resolution of the uniform draw of the interpolation step
GapDen == 4
\* fixed-point scale of a standardized value
Scale == 10

----------------------------------------------------------------------------
\* Program constants.

SdnnMax == 500
RmssdMax == 500
CvMax == 5
random_state == 42
k_neighbors == 5
TestSizeNum == 1
TestSizeDen == 5
n_trials == MaxTrials

REPORT_PNG == "classification_report.png"
MATRIX_PNG == "confusion_matrix.png"

PdfFile(s) ==
  IF s = CNN THEN "../reports/model_evaluation_CNN_LSTM.pdf"
  ELSE IF s = GB THEN "../reports/model_evaluation_Gradient_Boosting.pdf"
  ELSE "../reports/model_evaluation_ResNet_optm.pdf"

\* signal_quality minimum, in tenths
QualityThresholdSame(s) == 3
QualityThreshold(s) == IF s = RESNET THEN 5 ELSE 3

----------------------------------------------------------------------------
\* Row filters of prepare_data, applied in the order of the code.

FilterSdnn(d) ==
  LET Keep(r) == r.hrv_sdnn <= SdnnMax IN SelectSeq(d, Keep)

FilterRmssd(d) ==
  LET Keep(r) == r.hrv_rmssd <= RmssdMax IN SelectSeq(d, Keep)

FilterCv(d) ==
  LET Keep(r) == r.cv <= CvMax IN SelectSeq(d, Keep)

FilterQuality(d, s) ==
  LET Keep(r) == r.signal_quality >= QualityThreshold(s) IN SelectSeq(d, Keep)

FilterRows(d, s) == FilterQuality(FilterCv(FilterRmssd(FilterSdnn(d))), s)

----------------------------------------------------------------------------
\* StandardScaler.fit_transform on the selected feature columns.

Features == <<"hrv_sdnn", "hrv_rmssd", "hrv_mean", "cv">>

RECURSIVE SumSeq(_)
SumSeq(s) == IF s = <<>> THEN 0 ELSE Head(s) + SumSeq(Tail(s))

RECURSIVE IsqrtBetween(_, _, _)
IsqrtBetween(v, lo, hi) ==
  IF hi - lo <= 1 THEN lo
  ELSE LET mid == (lo + hi) \div 2
       IN IF mid <= v \div mid THEN IsqrtBetween(v, mid, hi)
          ELSE IsqrtBetween(v, lo, mid)

Isqrt(v) == IsqrtBetween(v, 0, v + 1)

Column(d, c) == [i \in 1..Len(d) |-> d[i][c]]

\* (x - mean) / std with the population std; a constant column has scale 1
Standardize(col, v) ==
  LET n == Len(col)
      s == SumSeq(col)
      q == SumSeq([i \in 1..n |-> col[i] * col[i]])
      sd == Isqrt(n * q - s * s)
  IN IF sd = 0 THEN 0 ELSE ((n * v - s) * Scale) \div sd

fit_transform(d) ==
  [i \in 1..Len(d) |->
     [d[i] EXCEPT !.hrv_sdnn = Standardize(Column(d, "hrv_sdnn"), d[i].hrv_sdnn),
                  !.hrv_rmssd = Standardize(Column(d, "hrv_rmssd"), d[i].hrv_rmssd),
                  !.hrv_mean = Standardize(Column(d, "hrv_mean"), d[i].hrv_mean),
                  !.cv = Standardize(Column(d, "cv"), d[i].cv)]]

\* x = df[features], y = df[label]
FeaturesOf(d) == [i \in 1..Len(d) |-> [j \in 1..Len(Features) |-> d[i][Features[j]]]]
LabelsOf(d) == [i \in 1..Len(d) |-> d[i].label]

----------------------------------------------------------------------------
\* Seeded pseudo-random generator standing for numpy's RandomState: a
\* generator is a state, a draw advances it, and equal seeds give equal
\* streams.

RandomState(seed) == seed % 65537

NextState(s) == (s * 75 + 74) % 65537

RECURSIVE Stream(_, _)
Stream(s, i) == IF i = 0 THEN s ELSE Stream(NextState(s), i - 1)

\* the i-th draw of randint(0, high) from generator state s
Randint(s, i, high) == Stream(s, i) % high

Swap(p, i, j) == [p EXCEPT ![i] = p[j], ![j] = p[i]]

\* Fisher-Yates shuffle, from the last position down, draw number d
RECURSIVE Shuffle(_, _, _, _)
Shuffle(p, i, s, d) ==
  IF i <= 1 THEN p
  ELSE Shuffle(Swap(p, i, Randint(s, d, i) + 1), i - 1, s, d + 1)

Permutation(n, s) == Shuffle([i \in 1..n |-> i], n, s, 1)
----------------------------------------------------------------------------
\* SMOTE(random_state=42).fit_resample(x, y) for a binary label.

Count(y, c) == Cardinality({i \in 1..Len(y) : y[i] = c})

Classes(y) == {y[i] : i \in 1..Len(y)}

Max2(a, b) == IF a >= b THEN a ELSE b

\* the class to oversample: the one with fewer rows
MinorityClass(y) == IF Count(y, 1) < Count(y, 0) THEN 1 ELSE 0

\* number of synthetic rows: bring the minority up to the majority
SmoteNSamplesShort(y) ==
  LET d == Max2(Count(y, 0), Count(y, 1)) - Count(y, MinorityClass(y))
  IN IF d > 0 THEN d - 1 ELSE 0
SmoteNSamples(y) == Max2(Count(y, 0), Count(y, 1)) - Count(y, MinorityClass(y))

\* fit_resample raises: one class only, or too few minority rows for the
\* k_neighbors + 1 neighbours the neighbour search asks for
SmoteFails(y) ==
  \/ Cardinality(Classes(y)) <= 1
  \/ /\ SmoteNSamples(y) > 0
     /\ Count(y, MinorityClass(y)) < k_neighbors + 1

\* positions of the rows of class c, in table order
RECURSIVE ClassIndices(_, _, _)
ClassIndices(y, c, i) ==
  IF i > Len(y) THEN <<>>
  ELSE IF y[i] = c THEN <<i>> \o ClassIndices(y, c, i + 1)
  ELSE ClassIndices(y, c, i + 1)

Dist(a, b) == SumSeq([j \in 1..Len(a) |-> (a[j] - b[j]) * (a[j] - b[j])])

\* the c-th (from 0) nearest other row of row r within the class rows xc
Neighbour(xc, r, c) ==
  LET others == (1..Len(xc)) \ {r}
      Nearer(p, q) == \/ Dist(xc[r], xc[p]) < Dist(xc[r], xc[q])
                      \/ Dist(xc[r], xc[p]) = Dist(xc[r], xc[q]) /\ p < q
  IN CHOOSE q \in others : Cardinality({p \in others : Nearer(p, q)}) = c

\* the t-th synthetic row: base row and neighbour from the t-th index draw,
\* step from the t-th uniform draw (drawn after all n index draws)
MakeSample(xc, s, t, n) ==
  LET idx == Randint(s, t, Len(xc) * k_neighbors)
      row == (idx \div k_neighbors) + 1
      col == idx % k_neighbors
      gap == Randint(s, n + t, GapDen)
      nb == xc[Neighbour(xc, row, col)]
  IN [j \in 1..Len(xc[row]) |->
        xc[row][j] + (gap * (nb[j] - xc[row][j])) \div GapDen]

SmoteX(x, y) ==
  LET n == SmoteNSamples(y)
      ci == ClassIndices(y, MinorityClass(y), 1)
      xc == [i \in 1..Len(ci) |-> x[ci[i]]]
      s == RandomState(random_state)
  IN x \o [t \in 1..n |-> MakeSample(xc, s, t, n)]

SmoteY(y) == y \o [t \in 1..SmoteNSamples(y) |-> MinorityClass(y)]

----------------------------------------------------------------------------
\* reshape, to_categorical and train_test_split(test_size=0.2, random_state=42)

Reshape(x) == [i \in 1..Len(x) |-> [j \in 1..Len(x[i]) |-> <<x[i][j]>>]]

to_categorical(y) == [i \in 1..Len(y) |-> IF y[i] = 1 THEN <<0, 1>> ELSE <<1, 0>>]

ArgMax(v) == IF v[2] > v[1] THEN 1 ELSE 0

\* the class of an entry of y_test, as evaluate_model reads it
LabelOf(s, v) == IF s = GB THEN v ELSE ArgMax(v)

\* n_test = ceil(test_size * n)
NTestFloor(n) == (n * TestSizeNum) \div TestSizeDen
NTest(n) == (n * TestSizeNum + TestSizeDen - 1) \div TestSizeDen

\* the generator of the split; g is the process-wide generator state
SplitRandomStateUnseeded(g) == g
SplitRandomState(g) == RandomState(random_state)

IndTest(n, s) == SubSeq(Permutation(n, s), 1, NTest(n))
IndTrain(n, s) == SubSeq(Permutation(n, s), NTest(n) + 1, n)

Take(a, ind) == [i \in 1..Len(ind) |-> a[ind[i]]]
----------------------------------------------------------------------------
\* Input tables.

\* rows around every threshold, for the filter specification
RowValues ==
  [hrv_sdnn : {500, 501}, hrv_rmssd : {500, 501}, hrv_mean : {800},
   cv : {5, 6}, signal_quality : {2, 3, 4, 5}, label : {1}]

FilterTables == UNION {[1..n -> RowValues] : n \in 0..MaxRows}

\* the i-th row of a table of rows within every threshold; g spreads them
GoodRow(i, lab, g) ==
  [hrv_sdnn |-> 100 + ((13 * g * i) % 90), hrv_rmssd |-> 50 + ((7 * i) % 40),
   hrv_mean |-> 600 + ((i * i * g) % 97), cv |-> 1 + (i % 5),
   signal_quality |-> 5 + (i % 5), label |-> lab]

Min2(a, b) == IF a <= b THEN a ELSE b

\* n0 rows of class 0 and n1 of class 1, alternating while both last
Block(n0, n1, g) ==
  [i \in 1..(n0 + n1) |->
     GoodRow(i, IF i <= 2 * Min2(n0, n1) THEN i % 2
                ELSE IF n1 > n0 THEN 1 ELSE 0, g)]

\* optional leading row: none, one over the SDNN limit, one whose quality
\* lies between the two scripts' thresholds
ExtraRows ==
  {<<>>,
   <<[hrv_sdnn |-> 501, hrv_rmssd |-> 60, hrv_mean |-> 700, cv |-> 2,
      signal_quality |-> 9, label |-> 1]>>,
   <<[hrv_sdnn |-> 120, hrv_rmssd |-> 60, hrv_mean |-> 700, cv |-> 2,
      signal_quality |-> 4, label |-> 0]>>}

Shapes == {1, 2}

Tables ==
  {e \o Block(n0, n1, g) : e \in ExtraRows, n0 \in 0..MaxClass,
                           n1 \in 0..MaxClass, g \in Shapes}

\* state of the process-wide generators when the script starts
OsEntropy == {7, 11}

----------------------------------------------------------------------------
\* Control flow.

\* an exception raised where the next statement would be `resume`: no
\* function of the scripts has a try block, so it ends the run
UncaughtSwallowed(e, resume) == resume
Uncaught(e, resume) == "aborted"

\* first statement after prepare_data returns
AfterPrepare(s) ==
  IF s = GB THEN "build_gradient_boosting_model_dump" ELSE "build_model"

\* first statement of the next trial, or of the final run after the search
NextTrialPcReload(s) == "load_data"
NextTrialPc(s) == IF s = RESNET THEN "load_data" ELSE "build_model"

\* files left once delete_images has returned
ImagesAfterDeleteFirst(f) == f \ {REPORT_PNG}
ImagesAfterDelete(f) == f \ {REPORT_PNG, MATRIX_PNG}

InitCommon ==
  /\ script \in Scripts
  /\ phase = "search"
  /\ trial = 0
  /\ x_res = <<>>
  /\ y_res = <<>>
  /\ ind_train = <<>>
  /\ ind_test = <<>>
  /\ x_train = <<>>
  /\ x_test = <<>>
  /\ y_train = <<>>
  /\ y_test = <<>>
  /\ model = "none"
  /\ modelArtifact = "none"
  /\ files = {}
  /\ canvas = <<>>
  /\ err = "none"
  /\ testReaders = {}

Init ==
  /\ InitCommon
  /\ pc = "load_data"
  /\ fileExists \in BOOLEAN
  /\ file \in (IF fileExists THEN Tables ELSE {<<>>})
  /\ df = <<>>
  /\ entropy \in OsEntropy

\* prepare_data entered with an arbitrary small table
InitFilter ==
  /\ InitCommon
  /\ pc = "prepare_data_filter"
  /\ fileExists = TRUE
  /\ file \in FilterTables
  /\ df = file
  /\ entropy = 7

----------------------------------------------------------------------------
\* Actions: one per statement group of main, objective, prepare_data,
\* evaluate_model and the report functions.

\* an exception e leaves the statement: nothing it would assign is assigned
Raise(e, resume) ==
  /\ pc' = Uncaught(e, resume)
  /\ err' = e

\* pd.read_csv(filename)
load_data ==
  /\ pc = "load_data"
  /\ IF fileExists
     THEN /\ df' = file
          /\ pc' = "prepare_data_filter"
          /\ err' = err
     ELSE /\ Raise("DataLoadError", "prepare_data_filter")
          /\ df' = df
  /\ UNCHANGED <<script, phase, trial, fileExists, file, x_res, y_res,
                 ind_train, ind_test, x_train, x_test, y_train, y_test,
                 entropy, model, modelArtifact, files, canvas, testReaders>>

\* the four row filters
prepare_data_filter ==
  /\ pc = "prepare_data_filter"
  /\ df' = FilterRows(df, script)
  /\ pc' = "prepare_data_normalize"
  /\ UNCHANGED <<script, phase, trial, fileExists, file, x_res, y_res,
                 ind_train, ind_test, x_train, x_test, y_train, y_test,
                 entropy, model, modelArtifact, files, canvas, err,
                 testReaders>>

\* df[features] = scaler.fit_transform(df[features]); no rows, no fit
prepare_data_normalize ==
  /\ pc = "prepare_data_normalize"
  /\ IF df = <<>>
     THEN /\ Raise("EmptyDatasetError", "prepare_data_smote")
          /\ df' = df
     ELSE /\ df' = fit_transform(df)
          /\ pc' = "prepare_data_smote"
          /\ err' = err
  /\ UNCHANGED <<script, phase, trial, fileExists, file, x_res, y_res,
                 ind_train, ind_test, x_train, x_test, y_train, y_test,
                 entropy, model, modelArtifact, files, canvas, testReaders>>

\* x_res, y_res = smote.fit_resample(x, y)
prepare_data_smote ==
  /\ pc = "prepare_data_smote"
  /\ IF SmoteFails(LabelsOf(df))
     THEN /\ Raise("InsufficientSamplesError", "prepare_data_split")
          /\ UNCHANGED <<x_res, y_res>>
     ELSE /\ x_res' = SmoteX(FeaturesOf(df), LabelsOf(df))
          /\ y_res' = SmoteY(LabelsOf(df))
          /\ pc' = "prepare_data_split"
          /\ err' = err
  /\ UNCHANGED <<script, phase, trial, fileExists, file, df, ind_train,
                 ind_test, x_train, x_test, y_train, y_test, entropy, model,
                 modelArtifact, files, canvas, testReaders>>

\* reshape and one-hot encoding (network scripts), then train_test_split;
\* the variables x_train .. y_test hold what prepare_data returned last
prepare_data_split ==
  /\ pc = "prepare_data_split"
  /\ LET n == Len(x_res)
         s == SplitRandomState(entropy)
         xe == IF script = GB THEN x_res ELSE Reshape(x_res)
         ye == IF script = GB THEN y_res ELSE to_categorical(y_res)
     IN /\ x_res' = xe
        /\ y_res' = ye
        /\ ind_test' = IndTest(n, s)
        /\ ind_train' = IndTrain(n, s)
        /\ x_train' = Take(xe, IndTrain(n, s))
        /\ x_test' = Take(xe, IndTest(n, s))
        /\ y_train' = Take(ye, IndTrain(n, s))
        /\ y_test' = Take(ye, IndTest(n, s))
  /\ pc' = AfterPrepare(script)
  /\ UNCHANGED <<script, phase, trial, fileExists, file, df, entropy, model,
                 modelArtifact, files, canvas, err, testReaders>>

\* build_cnn_lstm_model (which saves the model it has just compiled) or
\* build_resnet_model (which saves nothing)
build_model ==
  /\ pc = "build_model"
  /\ \E ok \in BOOLEAN :
       IF script = CNN /\ ~ok
       THEN /\ Raise("ModelSaveError", "model_fit")
            /\ UNCHANGED <<model, modelArtifact>>
       ELSE /\ model' = "untrained"
            /\ modelArtifact' = IF script = CNN THEN "untrained" ELSE modelArtifact
            /\ pc' = "model_fit"
            /\ err' = err
  /\ UNCHANGED <<script, phase, trial, fileExists, file, df, x_res, y_res,
                 ind_train, ind_test, x_train, x_test, y_train, y_test,
                 entropy, files, canvas, testReaders>>

\* model.fit(x_train, y_train, ...): draws from the process-wide generators
model_fit ==
  /\ pc = "model_fit"
  /\ model' = "fitted"
  /\ entropy' = NextState(entropy)
  /\ pc' = IF phase = "search" THEN "objective_score" ELSE "evaluate_model"
  /\ UNCHANGED <<script, phase, trial, fileExists, file, df, x_res, y_res,
                 ind_train, ind_test, x_train, x_test, y_train, y_test,
                 modelArtifact, files, canvas, err, testReaders>>

\* the value objective returns to the search: accuracy on x_test, y_test
objective_score ==
  /\ pc = "objective_score"
  /\ testReaders' = testReaders \cup {"objective"}
  /\ trial' = trial + 1
  /\ phase' = IF trial + 1 < n_trials THEN "search" ELSE "final"
  /\ pc' = NextTrialPc(script)
  /\ UNCHANGED <<script, fileExists, file, df, x_res, y_res, ind_train,
                 ind_test, x_train, x_test, y_train, y_test, entropy, model,
                 modelArtifact, files, canvas, err>>

\* model = XGBClassifier(...); pickle.dump(model, open(..., 'wb'))
build_gradient_boosting_model_dump ==
  /\ pc = "build_gradient_boosting_model_dump"
  /\ \E ok \in BOOLEAN :
       IF ok
       THEN /\ model' = "untrained"
            /\ modelArtifact' = "untrained"
            /\ pc' = "build_gradient_boosting_model_search"
            /\ err' = err
       ELSE /\ Raise("ModelSaveError", "build_gradient_boosting_model_search")
            /\ UNCHANGED <<model, modelArtifact>>
  /\ UNCHANGED <<script, phase, trial, fileExists, file, df, x_res, y_res,
                 ind_train, ind_test, x_train, x_test, y_train, y_test,
                 entropy, files, canvas, testReaders>>

\* RandomizedSearchCV(...).fit(x_train, y_train); best_estimator_ returned
build_gradient_boosting_model_search ==
  /\ pc = "build_gradient_boosting_model_search"
  /\ model' = "fitted"
  /\ phase' = "final"
  /\ pc' = "evaluate_model"
  /\ UNCHANGED <<script, trial, fileExists, file, df, x_res, y_res,
                 ind_train, ind_test, x_train, x_test, y_train, y_test,
                 entropy, modelArtifact, files, canvas, err, testReaders>>

\* predictions and metrics on the test subset; roc_auc_score has no value
\* when the true labels hold one class only
evaluate_model ==
  /\ pc = "evaluate_model"
  /\ testReaders' = testReaders \cup {"evaluate_model"}
  /\ IF Cardinality({LabelOf(script, y_test[i]) : i \in 1..Len(y_test)}) < 2
     THEN Raise("MetricUndefinedError", "create_classification_report_image")
     ELSE /\ pc' = "create_classification_report_image"
          /\ err' = err
  /\ UNCHANGED <<script, phase, trial, fileExists, file, df, x_res, y_res,
                 ind_train, ind_test, x_train, x_test, y_train, y_test,
                 entropy, model, modelArtifact, files, canvas>>

\* plt.savefig("classification_report.png")
create_classification_report_image ==
  /\ pc = "create_classification_report_image"
  /\ \E ok \in BOOLEAN :
       IF ok
       THEN /\ files' = files \cup {REPORT_PNG}
            /\ pc' = "create_pdf_draw_report"
            /\ err' = err
       ELSE /\ Raise("ReportWriteError", "create_pdf_draw_report")
            /\ files' = files
  /\ UNCHANGED <<script, phase, trial, fileExists, file, df, x_res, y_res,
                 ind_train, ind_test, x_train, x_test, y_train, y_test,
                 entropy, model, modelArtifact, canvas, testReaders>>

\* c = canvas.Canvas(...); c.drawImage("classification_report.png", ...)
create_pdf_draw_report ==
  /\ pc = "create_pdf_draw_report"
  /\ \E ok \in BOOLEAN :
       IF ok /\ REPORT_PNG \in files
       THEN /\ canvas' = <<REPORT_PNG>>
            /\ pc' = "create_pdf_heatmap"
            /\ err' = err
       ELSE /\ Raise("ReportWriteError", "create_pdf_heatmap")
            /\ canvas' = canvas
  /\ UNCHANGED <<script, phase, trial, fileExists, file, df, x_res, y_res,
                 ind_train, ind_test, x_train, x_test, y_train, y_test,
                 entropy, model, modelArtifact, files, testReaders>>

\* sns.heatmap(...); plt.savefig("confusion_matrix.png")
create_pdf_heatmap ==
  /\ pc = "create_pdf_heatmap"
  /\ \E ok \in BOOLEAN :
       IF ok
       THEN /\ files' = files \cup {MATRIX_PNG}
            /\ pc' = "create_pdf_draw_matrix"
            /\ err' = err
       ELSE /\ Raise("ReportWriteError", "create_pdf_draw_matrix")
            /\ files' = files
  /\ UNCHANGED <<script, phase, trial, fileExists, file, df, x_res, y_res,
                 ind_train, ind_test, x_train, x_test, y_train, y_test,
                 entropy, model, modelArtifact, canvas, testReaders>>

\* c.drawImage("confusion_matrix.png", ...)
create_pdf_draw_matrix ==
  /\ pc = "create_pdf_draw_matrix"
  /\ \E ok \in BOOLEAN :
       IF ok /\ MATRIX_PNG \in files
       THEN /\ canvas' = Append(canvas, MATRIX_PNG)
            /\ pc' = "create_pdf_save"
            /\ err' = err
       ELSE /\ Raise("ReportWriteError", "create_pdf_save")
            /\ canvas' = canvas
  /\ UNCHANGED <<script, phase, trial, fileExists, file, df, x_res, y_res,
                 ind_train, ind_test, x_train, x_test, y_train, y_test,
                 entropy, model, modelArtifact, files, testReaders>>

\* c.showPage(); c.save(): the PDF file is written here
create_pdf_save ==
  /\ pc = "create_pdf_save"
  /\ \E ok \in BOOLEAN :
       IF ok
       THEN /\ files' = files \cup {PdfFile(script)}
            /\ pc' = "delete_images"
            /\ err' = err
       ELSE /\ Raise("ReportWriteError", "delete_images")
            /\ files' = files
  /\ UNCHANGED <<script, phase, trial, fileExists, file, df, x_res, y_res,
                 ind_train, ind_test, x_train, x_test, y_train, y_test,
                 entropy, model, modelArtifact, canvas, testReaders>>

\* os.remove of the two images
delete_images ==
  /\ pc = "delete_images"
  /\ IF {REPORT_PNG, MATRIX_PNG} \subseteq files
     THEN /\ files' = ImagesAfterDelete(files)
          /\ pc' = "done"
          /\ err' = err
     ELSE /\ Raise("FileNotFoundError", "done")
          /\ files' = files \ {REPORT_PNG}
  /\ UNCHANGED <<script, phase, trial, fileExists, file, df, x_res, y_res,
                 ind_train, ind_test, x_train, x_test, y_train, y_test,
                 entropy, model, modelArtifact, canvas, testReaders>>

Next ==
  \/ load_data
  \/ prepare_data_filter
  \/ prepare_data_normalize
  \/ prepare_data_smote
  \/ prepare_data_split
  \/ build_model
  \/ model_fit
  \/ objective_score
  \/ build_gradient_boosting_model_dump
  \/ build_gradient_boosting_model_search
  \/ evaluate_model
  \/ create_classification_report_image
  \/ create_pdf_draw_report
  \/ create_pdf_heatmap
  \/ create_pdf_draw_matrix
  \/ create_pdf_save
  \/ delete_images

Spec == Init /\ [][Next]_vars

NextFilter == prepare_data_filter

SpecFilter == InitFilter /\ [][NextFilter]_vars

----------------------------------------------------------------------------
\* Properties.

WithinThresholds(r, s) ==
  /\ r.hrv_sdnn <= 500
  /\ r.hrv_rmssd <= 500
  /\ r.cv <= 5
  /\ r.signal_quality >= (IF s \in {CNN, GB} THEN 3 ELSE 5)

\* C1: the rows prepare_data hands to normalization are exactly the rows of
\* the input table that satisfy all four thresholds (signal_quality minimum
\* 0.3 in CNN_LSTM_Hybrid and GradientBoost, 0.5 in resnet_Optimized), in
\* the input's order: every kept row satisfies them, no satisfying row is
\* dropped.
C1_FilterKeepsExactlyRowsWithinThresholds ==
  pc = "prepare_data_normalize" =>
    LET Ok(r) == WithinThresholds(r, script) IN df = SelectSeq(file, Ok)

C1_Witness ==
  /\ pc = "prepare_data_normalize"
  /\ Len(df) >= 1
  /\ Len(df) < Len(file)

\* C2: when report generation has stopped with a failure, neither
\* classification_report.png nor confusion_matrix.png exists.
C2_ImagesRemovedOnFailure ==
  (pc = "aborted" /\ err = "ReportWriteError") =>
    (REPORT_PNG \notin files /\ MATRIX_PNG \notin files)

\* C3: a report generation that completes leaves the PDF written and neither
\* image on disk; an image is drawn on the canvas only while its file
\* exists, and an image file is removed only once the PDF has been saved.
C3_ReportSuccessOrder ==
  [][/\ pc' = "done" =>
          /\ PdfFile(script) \in files'
          /\ REPORT_PNG \notin files'
          /\ MATRIX_PNG \notin files'
          /\ canvas' = <<REPORT_PNG, MATRIX_PNG>>
     /\ canvas' # canvas => canvas'[Len(canvas')] \in files
     /\ \A f \in {REPORT_PNG, MATRIX_PNG} :
          (f \in files /\ f \notin files') => PdfFile(script) \in files
    ]_vars

C3_Witness ==
  /\ pc = "done"
  /\ PdfFile(script) \in files
  /\ canvas = <<REPORT_PNG, MATRIX_PNG>>

SplitIsPairedPartition ==
  LET n == Len(x_res)
      used == {ind_train[i] : i \in 1..Len(ind_train)}
                \cup {ind_test[i] : i \in 1..Len(ind_test)}
  IN /\ used = 1..n
     /\ Len(ind_train) + Len(ind_test) = n
     /\ Len(x_train) = Len(ind_train) /\ Len(y_train) = Len(ind_train)
     /\ Len(x_test) = Len(ind_test) /\ Len(y_test) = Len(ind_test)
     /\ \A i \in 1..Len(ind_train) :
          x_train[i] = x_res[ind_train[i]] /\ y_train[i] = y_res[ind_train[i]]
     /\ \A i \in 1..Len(ind_test) :
          x_test[i] = x_res[ind_test[i]] /\ y_test[i] = y_res[ind_test[i]]

\* prepare_data has just returned its four arrays
SplitReturned ==
  pc \in {"build_model", "build_gradient_boosting_model_dump"}

\* C4 as stated: the split is a partition of the resampled rows with
\* features and labels paired, and the test subset holds exactly 20% of the
\* rows, the train subset 80%.
C4_SplitExactlyTwentyPercent ==
  SplitReturned =>
    /\ SplitIsPairedPartition
    /\ 5 * Len(x_test) = Len(x_res)
    /\ 5 * Len(x_train) = 4 * Len(x_res)

\* C4 amended: the split is a partition of the resampled rows with features
\* and labels paired, and the test subset holds 20% of the rows rounded up
\* to a whole row, the train subset the rest.
C4_SplitTwentyPercentRoundedUp ==
  SplitReturned =>
    /\ SplitIsPairedPartition
    /\ 5 * Len(x_test) >= Len(x_res)
    /\ 5 * (Len(x_test) - 1) < Len(x_res)
    /\ Len(x_train) = Len(x_res) - Len(x_test)

C4_Witness ==
  /\ SplitReturned
  /\ Len(x_res) = 14
  /\ Len(x_test) = 3
  /\ Len(x_train) = 11

\* C5: a call of prepare_data made after an earlier call in the same run
\* (resnet_Optimized: every trial, then main) returns the same train and
\* test features and labels as the earlier call did.
C5_PrepareDataDeterministic ==
  [][(pc = "prepare_data_split" /\ x_train # <<>>) =>
       /\ x_train' = x_train
       /\ x_test' = x_test
       /\ y_train' = y_train
       /\ y_test' = y_test
    ]_vars

C5_Witness ==
  /\ script = RESNET
  /\ trial >= 1
  /\ pc = "build_model"
  /\ Len(x_res) > Len(df)

\* C6: after a resampling that succeeds, classes 0 and 1 have equally many
\* rows, the original rows are all kept (in place), every added row has the
\* minority label, and the majority count is unchanged.
C6_ResampleBalancesByAddingMinority ==
  pc = "prepare_data_split" =>
    LET x == FeaturesOf(df)
        y == LabelsOf(df)
        n == Len(y)
        mino == IF Count(y, 1) < Count(y, 0) THEN 1 ELSE 0
    IN /\ Len(x_res) = Len(y_res)
       /\ Count(y_res, 0) = Count(y_res, 1)
       /\ Len(y_res) >= n
       /\ SubSeq(x_res, 1, n) = x
       /\ SubSeq(y_res, 1, n) = y
       /\ \A i \in (n + 1)..Len(y_res) : y_res[i] = mino
       /\ Count(y_res, 1 - mino) = Count(y, 1 - mino)

C6_Witness ==
  /\ pc = "prepare_data_split"
  /\ Len(y_res) > Len(df)
  /\ Count(y_res, 0) = Count(y_res, 1)

\* position of a statement in the order Loader, Filter/Normalizer,
\* Resampler, Splitter, Trainer, Evaluator, Report Renderer
StageRank(p) ==
  IF p = "load_data" THEN 1
  ELSE IF p \in {"prepare_data_filter", "prepare_data_normalize"} THEN 2
  ELSE IF p = "prepare_data_smote" THEN 3
  ELSE IF p = "prepare_data_split" THEN 4
  ELSE IF p \in {"build_model", "model_fit", "objective_score",
                 "build_gradient_boosting_model_dump",
                 "build_gradient_boosting_model_search"} THEN 5
  ELSE IF p = "evaluate_model" THEN 6
  ELSE IF p \in {"create_classification_report_image",
                 "create_pdf_draw_report", "create_pdf_heatmap",
                 "create_pdf_draw_matrix", "create_pdf_save",
                 "delete_images"} THEN 7
  ELSE 8

\* C7 as stated: in every script no step goes from a later stage back to an
\* earlier one.
C7_StagesNeverGoBack ==
  [][StageRank(pc') >= StageRank(pc)]_vars

\* C7 amended: the only step from a later stage back to an earlier one is
\* in resnet_Optimized, from the scoring of a search trial back to
\* load_data (each trial, and main after the search, loads and prepares the
\* data anew); CNN_LSTM_Hybrid and GradientBoost never go back.
C7_StagesGoBackOnlyAtResnetReload ==
  [][StageRank(pc') < StageRank(pc) =>
       (script = RESNET /\ pc = "objective_score" /\ pc' = "load_data")
    ]_vars

C7_Witness ==
  /\ script = RESNET
  /\ trial >= 1
  /\ pc = "prepare_data_filter"

\* C8: the model artifact on disk is never an untrained model: nothing is
\* written before the fit of the final model has completed.
C8_ArtifactIsNeverUntrained ==
  modelArtifact # "untrained"

PrepareErrors == {"DataLoadError", "EmptyDatasetError", "InsufficientSamplesError"}

\* C9: a failure of any stage ends the run: the failing step leaves the run
\* aborted, no step is ever taken once an error has occurred, and a run
\* whose data preparation failed has written no evaluation PDF.
C9_FailureAbortsRun ==
  [][/\ err = "none"
     /\ err' # "none" => pc' = "aborted"
     /\ err' \in PrepareErrors => PdfFile(script) \notin files'
    ]_vars

C9_Witness ==
  /\ pc = "aborted"
  /\ err = "EmptyDatasetError"
  /\ file # <<>>
  /\ PdfFile(script) \notin files

\* C10: the test subset is read by the final evaluate_model call only.
C10_TestSubsetReadOnlyByEvaluate ==
  testReaders \subseteq {"evaluate_model"}
====
